---- MODULE Spec2Model ----
(***************************************************************************)
(* The dependent-resource watcher of the helm operator: one Exec call of   *)
(* the post hook over a release manifest, against a REST mapper and a      *)
(* (fake) controller that records the Watch calls it receives.             *)
(*                                                                         *)
(* The hook's own source (pkg/reconciler/internal/hook) is not part of the *)
(* sources at hand; its test suite (src/unnamed/part_000) is.  The control *)
(* flow of Exec follows the design document (sections 4.1 - 4.3, 7); the   *)
(* inputs, the REST mapper's content, the error values and the handler     *)
(* each watch is expected to carry follow the test suite.                  *)
(***************************************************************************)
EXTENDS Naturals, Sequences, FiniteSets, TLC

\* The longest manifest, in documents.
MaxDocs == 2

\* The most Exec calls made on one registrar.
MaxExecs == 2

Nil == [type |-> "nil"]

----------------------------------------------------------------------------
\* Kinds, scopes and the REST mapper

GVK(g, v, k) == [group |-> g, version |-> v, kind |-> k]

Deployment         == GVK("apps", "v1", "Deployment")
ReplicaSet         == GVK("apps", "v1", "ReplicaSet")
StatefulSet        == GVK("apps", "v1", "StatefulSet")
ClusterRole        == GVK("rbac.authorization.k8s.io", "v1", "ClusterRole")
ClusterRoleBinding == GVK("rbac.authorization.k8s.io", "v1", "ClusterRoleBinding")
listGVK            == GVK("", "v1", "List")

RESTScopeNamespace == "namespace"
RESTScopeRoot      == "root"

\* rm.Add(...) of the "with known APIs" context.
KnownAPIs ==
    (Deployment :> RESTScopeNamespace) @@ (ReplicaSet :> RESTScopeNamespace)
    @@ (StatefulSet :> RESTScopeNamespace) @@ (ClusterRole :> RESTScopeRoot)
    @@ (ClusterRoleBinding :> RESTScopeRoot)

\* A REST mapper knows some of the APIs: none ("with unknown APIs"), only one
\* (the owner's, say), all of them, or all but one.
RESTMappers ==
    {[g \in S |-> KnownAPIs[g]] :
        S \in {T \in SUBSET (DOMAIN KnownAPIs) :
                  \/ Cardinality(T) <= 1
                  \/ Cardinality(DOMAIN KnownAPIs \ T) <= 1}}

GroupKind(gvk) == [Group |-> gvk.group, Kind |-> gvk.kind]

NoKindMatchErrorBadVersion(gvk) ==
    [type |-> "NoKindMatchError", GroupKind |-> GroupKind(gvk),
     SearchedVersions |-> <<>>]

\* The error the tests expect for a kind the mapper does not know.
NoKindMatchError(gvk) ==
    [type |-> "NoKindMatchError", GroupKind |-> GroupKind(gvk),
     SearchedVersions |-> <<gvk.version>>]

RESTMappingLenient(mapper, gvk) ==
    IF gvk \in DOMAIN mapper
    THEN [scope |-> mapper[gvk], err |-> Nil]
    ELSE [scope |-> RESTScopeNamespace, err |-> Nil]

\* RESTMapping(groupKind, version): the scope, or the no-match error.
RESTMapping(mapper, gvk) ==
    IF gvk \in DOMAIN mapper
    THEN [scope |-> mapper[gvk], err |-> Nil]
    ELSE [scope |-> "", err |-> NoKindMatchError(gvk)]

----------------------------------------------------------------------------
\* Objects and manifest documents

ResourcePolicyAnno == "helm.sh/resource-policy"
KeepPolicy         == "keep"

ownerNamespace == "ownerNamespace"
otherNamespace == "otherNamespace"

\* A decoded object: annotations are a set of <<key, value>> pairs.  A List
\* document carries items; items that are present but hold no sequence have
\* itemsOK = FALSE.  A document that is no object at all has ok = FALSE.
Object(gvk, ns, name, ann) ==
    [ok |-> TRUE, gvk |-> gvk, namespace |-> ns, name |-> name,
     annotations |-> ann, itemsOK |-> TRUE, items |-> <<>>]

keepAnnotations == {<<ResourcePolicyAnno, KeepPolicy>>}

rsOwnerNamespace ==
    Object(ReplicaSet, ownerNamespace, "testReplicaSet", {})
rsOwnerNamespaceWithKeep ==
    Object(ReplicaSet, ownerNamespace, "testReplicaSet", keepAnnotations)
ssOtherNamespace ==
    Object(StatefulSet, otherNamespace, "otherTestStatefulSet", {})
ssOtherNamespaceWithKeep ==
    Object(StatefulSet, otherNamespace, "otherTestStatefulSet", keepAnnotations)
clusterRole ==
    Object(ClusterRole, "", "testClusterRole", {})
clusterRoleWithKeep ==
    Object(ClusterRole, "", "testClusterRole", keepAnnotations)
clusterRoleBinding ==
    Object(ClusterRoleBinding, "", "testClusterRoleBinding", {})
clusterRoleBindingWithKeep ==
    Object(ClusterRoleBinding, "", "testClusterRoleBinding", keepAnnotations)

\* Near-matches of the retention value.
rsOwnerNamespaceNearKeep ==
    Object(ReplicaSet, ownerNamespace, "testReplicaSet",
           {<<ResourcePolicyAnno, "Keep">>})
clusterRoleNearKeep ==
    Object(ClusterRole, "", "testClusterRole", {<<ResourcePolicyAnno, "KEEP">>})

List(items) ==
    [ok |-> TRUE, gvk |-> listGVK, namespace |-> "", name |-> "",
     annotations |-> {}, itemsOK |-> TRUE, items |-> items]

replicaSetList ==
    List(<<Object(ReplicaSet, ownerNamespace, "testReplicaSet1", {}),
           Object(ReplicaSet, ownerNamespace, "testReplicaSet2", {})>>)

\* "items:" with nothing under it.
errReplicaSetList == [List(<<>>) EXCEPT !.itemsOK = FALSE]

\* "foobar": a document that is no object.
foobar == [Object(GVK("", "", ""), "", "", {}) EXCEPT !.ok = FALSE]

\* A List with no items, and one whose items differ in kind and policy.
emptyList == List(<<>>)
mixedList == List(<<clusterRoleWithKeep, ssOtherNamespace, clusterRole>>)

\* The test objects, and the namespaced ones also in the other namespace.
Fixtures ==
    {rsOwnerNamespace, rsOwnerNamespaceWithKeep, ssOtherNamespace,
     ssOtherNamespaceWithKeep, clusterRole, clusterRoleWithKeep,
     clusterRoleBinding, clusterRoleBindingWithKeep}

Objects ==
    Fixtures \cup
    {[o EXCEPT !.namespace = ns] :
        o \in {f \in Fixtures : f.namespace # ""},
        ns \in {ownerNamespace, otherNamespace}}

Documents ==
    Objects \cup {replicaSetList, errReplicaSetList, emptyList, mixedList, foobar}
            \cup {rsOwnerNamespaceNearKeep, clusterRoleNearKeep}

\* The release manifests: the documents joined by "---\n".
Manifests == UNION {[1..n -> Documents] : n \in 0..MaxDocs}

\* The owners of the tests: a namespaced Deployment, a cluster-scoped ClusterRole.
Owners ==
    {Object(Deployment, ownerNamespace, "testDeployment", {}),
     Object(ClusterRole, "", "testClusterRole", {})}

----------------------------------------------------------------------------
\* 4.1 Manifest decoder

ManifestParseError(n) == [type |-> "ManifestParseError", document |-> n]

\* A descriptor: the object, and the kind of the document it came in (the
\* object's own kind, or List for a list item).
Descriptor(o, doc) == [obj |-> o, doc |-> doc.gvk]

RECURSIVE DescriptorsOf(_, _)
DescriptorsOf(items, doc) ==
    IF items = <<>> THEN <<>>
    ELSE <<Descriptor(Head(items), doc)>> \o DescriptorsOf(Tail(items), doc)

DocumentFailsOnNoItems(doc) ==
    ~doc.ok \/ (doc.gvk = listGVK /\ (~doc.itemsOK \/ doc.items = <<>>))

DocumentFailsIgnoresItems(doc) == ~doc.ok

DocumentFails(doc) == ~doc.ok \/ (doc.gvk = listGVK /\ ~doc.itemsOK)

DecodeDocumentItemsReversed(doc) ==
    IF doc.gvk = listGVK
    THEN DescriptorsOf([k \in 1..Len(doc.items) |->
                           doc.items[Len(doc.items) + 1 - k]], doc)
    ELSE <<Descriptor(doc, doc)>>

\* The descriptors of one document: the items of a List in their order, in
\* place of the List; the object itself otherwise.
DecodeDocument(doc) ==
    IF doc.gvk = listGVK THEN DescriptorsOf(doc.items, doc)
    ELSE <<Descriptor(doc, doc)>>

RECURSIVE DecodeFrom(_, _)
DecodeFrom(m, n) ==
    IF n > Len(m) THEN [objs |-> <<>>, err |-> Nil]
    ELSE IF DocumentFails(m[n]) THEN [objs |-> <<>>, err |-> ManifestParseError(n)]
    ELSE LET rest == DecodeFrom(m, n + 1)
         IN  IF rest.err # Nil THEN rest
             ELSE [objs |-> DecodeDocument(m[n]) \o rest.objs, err |-> Nil]

RECURSIVE DecodeUpToFailure(_, _)
DecodeUpToFailure(m, n) ==
    IF n > Len(m) \/ DocumentFails(m[n]) THEN <<>>
    ELSE DecodeDocument(m[n]) \o DecodeUpToFailure(m, n + 1)

DecodePartial(m) == [objs |-> DecodeUpToFailure(m, 1), err |-> Nil]

\* Decode(manifestText) -> (sequence of descriptors, error): all or nothing.
Decode(m) == DecodeFrom(m, 1)

----------------------------------------------------------------------------
\* 4.3 Strategy selection

OwnerReferenceNotify == "EnqueueRequestForOwner"
AnnotationNotify     == "EnqueueRequestForAnnotation"

HasResourcePolicyKeepFolded(ann) ==
    \E v \in {"keep", "Keep", "KEEP"} : <<ResourcePolicyAnno, v>> \in ann

HasResourcePolicyKeep(ann) == <<ResourcePolicyAnno, KeepPolicy>> \in ann

\* The key under which a descriptor is looked up in the seen-set.
KindKey(d) == d.obj.gvk

\* The key that is marked seen once the descriptor's watch is registered: the
\* kind of the document.  Two documents of one kind yield one Watch call
\* ("should watch resource kinds only once each"), the two ReplicaSet items
\* of replicaSetList yield two ("should iterate the kind list and be able to
\* set watches on each item"): an item's own kind is not marked.
SeenKey(d) == d.doc

SelectStrategySwappedNamespaceTest(ownerScope, ownerNs, depScope, depNs, keep) ==
    IF keep THEN AnnotationNotify
    ELSE IF ownerScope = RESTScopeRoot THEN OwnerReferenceNotify
    ELSE IF depScope = RESTScopeRoot THEN AnnotationNotify
    ELSE IF depNs # ownerNs THEN OwnerReferenceNotify
    ELSE AnnotationNotify

SelectStrategyClusterDependentOwned(ownerScope, ownerNs, depScope, depNs, keep) ==
    IF keep THEN AnnotationNotify
    ELSE IF ownerScope = RESTScopeRoot THEN OwnerReferenceNotify
    ELSE IF depScope = RESTScopeRoot THEN OwnerReferenceNotify
    ELSE IF depNs = ownerNs THEN OwnerReferenceNotify
    ELSE AnnotationNotify

SelectStrategyNoNamespaceTest(ownerScope, ownerNs, depScope, depNs, keep) ==
    IF keep THEN AnnotationNotify
    ELSE IF ownerScope = RESTScopeRoot THEN OwnerReferenceNotify
    ELSE IF depScope = RESTScopeRoot THEN AnnotationNotify
    ELSE OwnerReferenceNotify

SelectStrategyClusterOwnerAnnotates(ownerScope, ownerNs, depScope, depNs, keep) ==
    IF keep THEN AnnotationNotify
    ELSE IF ownerScope = RESTScopeRoot /\ depScope = RESTScopeRoot
         THEN AnnotationNotify
    ELSE IF ownerScope = RESTScopeRoot THEN OwnerReferenceNotify
    ELSE IF depScope = RESTScopeRoot THEN AnnotationNotify
    ELSE IF depNs = ownerNs THEN OwnerReferenceNotify
    ELSE AnnotationNotify

SelectStrategyIgnoresKeep(ownerScope, ownerNs, depScope, depNs, keep) ==
    IF ownerScope = RESTScopeRoot THEN OwnerReferenceNotify
    ELSE IF depScope = RESTScopeRoot THEN AnnotationNotify
    ELSE IF depNs = ownerNs THEN OwnerReferenceNotify
    ELSE AnnotationNotify

SelectStrategyByNamespaceOnly(ownerScope, ownerNs, depScope, depNs, keep) ==
    IF keep THEN AnnotationNotify
    ELSE IF depNs = ownerNs THEN OwnerReferenceNotify
    ELSE AnnotationNotify

\* The rule of the design document: a cluster-scoped owner owns only
\* cluster-scoped dependents.
SelectStrategyByDesignDocument(ownerScope, ownerNs, depScope, depNs, keep) ==
    IF keep THEN AnnotationNotify
    ELSE IF ownerScope = RESTScopeNamespace /\ depScope = RESTScopeNamespace
            /\ depNs = ownerNs
         THEN OwnerReferenceNotify
    ELSE IF ownerScope = RESTScopeRoot /\ depScope = RESTScopeRoot
         THEN OwnerReferenceNotify
    ELSE AnnotationNotify

\* The handler each test expects, by the owner's and the dependent's scope
\* and namespace and the dependent's resource policy.
SelectStrategy(ownerScope, ownerNs, depScope, depNs, keep) ==
    IF keep THEN AnnotationNotify
    ELSE IF ownerScope = RESTScopeRoot THEN OwnerReferenceNotify
    ELSE IF depScope = RESTScopeRoot THEN AnnotationNotify
    ELSE IF depNs = ownerNs THEN OwnerReferenceNotify
    ELSE AnnotationNotify

WatchRegistrationError == [type |-> "WatchRegistrationError"]
ControllerStopped      == [type |-> "ControllerStopped"]

\* What the controller may answer a Watch call with, besides success.
WatchErrors == {WatchRegistrationError, ControllerStopped}

\* The collaborator calls Exec makes, as they are recorded in calls.
RESTMappingCall(gvk, r) == [to |-> "RESTMapping", gvk |-> gvk, err |-> r.err]
WatchCall(o, s, e)      == [to |-> "Watch", obj |-> o, handler |-> s, err |-> e]

----------------------------------------------------------------------------
\* State

VARIABLES
    owner,       \* the object whose reconciliation rendered the manifest
    rm,          \* the REST mapper: known kind -> scope
    manifest,    \* rel.Manifest, as its documents
    pc,          \* Start, Decoding, Resolving, Selecting, Done, Aborted
    objs,        \* the decoded descriptors
    idx,         \* the descriptor the loop is at
    ownerScope,  \* the owner's resolved scope
    seen,        \* the kinds already watched
    WatchCalls,  \* the controller's record of Watch calls
    err,         \* what Exec returns
    calls,       \* this call's mapping-service and Watch calls, in order
    finished,    \* the earlier Exec calls on this registrar, as they ended
    waiting,     \* the Exec calls of other goroutines, between two steps
    install,     \* action.Install, as far as the annotations set it
    upgrade,     \* action.Upgrade, likewise
    uninstall,   \* action.Uninstall, likewise
    applied      \* the annotation option applied last, and what it returned

helmActions == <<install, upgrade, uninstall, applied>>

vars ==
    <<owner, rm, manifest, pc, objs, idx, ownerScope, seen, WatchCalls, err,
      calls, finished, waiting, helmActions>>

inputs == <<owner, rm, manifest>>

NoOption == [option |-> "", val |-> "", err |-> Nil]

\* The helm actions as action.NewInstall, NewUpgrade and NewUninstall make
\* them, before any annotation option is applied.
NewActions ==
    /\ install = [DisableHooks |-> FALSE]
    /\ upgrade = [DisableHooks |-> FALSE, Force |-> FALSE]
    /\ uninstall = [DisableHooks |-> FALSE]
    /\ applied = NoOption

Init ==
    /\ owner \in Owners
    /\ rm \in RESTMappers
    /\ manifest \in Manifests
    /\ pc = "Start"
    /\ objs = <<>>
    /\ idx = 1
    /\ ownerScope = ""
    /\ seen = {}
    /\ WatchCalls = <<>>
    /\ err = Nil
    /\ calls = <<>>
    /\ finished = <<>>
    /\ waiting = <<>>
    /\ NewActions

\* Exec is entered.
Start ==
    /\ pc = "Start"
    /\ pc' = "Decoding"
    /\ UNCHANGED <<inputs, objs, idx, ownerScope, seen, WatchCalls, err,
                   calls, finished,
                   waiting, helmActions>>

\* Step 1: decode the manifest; abort on a decode failure.
DecodeManifest ==
    /\ pc = "Decoding"
    /\ LET r == Decode(manifest)
       IN  IF r.err # Nil
           THEN /\ pc' = "Aborted"
                /\ err' = r.err
                /\ objs' = objs
           ELSE /\ pc' = "Resolving"
                /\ err' = err
                /\ objs' = r.objs
    /\ UNCHANGED <<inputs, idx, ownerScope, seen, WatchCalls, calls, finished,
                   waiting, helmActions>>

\* Step 2: resolve the owner's scope; abort if its kind is unknown.
ResolveOwner ==
    /\ pc = "Resolving"
    /\ LET r == RESTMapping(rm, owner.gvk)
       IN  /\ calls' = Append(calls, RESTMappingCall(owner.gvk, r))
           /\ IF r.err # Nil
              THEN /\ pc' = "Aborted"
                   /\ err' = r.err
                   /\ ownerScope' = ownerScope
              ELSE /\ pc' = "Selecting"
                   /\ err' = err
                   /\ ownerScope' = r.scope
    /\ UNCHANGED <<inputs, objs, idx, seen, WatchCalls, finished,
                   waiting, helmActions>>

SkipSeenStays ==
    /\ pc = "Selecting"
    /\ idx <= Len(objs)
    /\ KindKey(objs[idx]) \in seen
    /\ idx' = idx
    /\ UNCHANGED <<inputs, pc, objs, ownerScope, seen, WatchCalls, err,
                   calls, finished,
                   waiting, helmActions>>

\* Step 3a: a descriptor whose kind is in the seen-set is skipped.
SkipSeen ==
    /\ pc = "Selecting"
    /\ idx <= Len(objs)
    /\ KindKey(objs[idx]) \in seen
    /\ idx' = idx + 1
    /\ UNCHANGED <<inputs, pc, objs, ownerScope, seen, WatchCalls, err,
                   calls, finished,
                   waiting, helmActions>>

\* Step 3b: the dependent's kind is unknown: the whole call aborts.
ResolveFails ==
    /\ pc = "Selecting"
    /\ idx <= Len(objs)
    /\ KindKey(objs[idx]) \notin seen
    /\ LET r == RESTMapping(rm, objs[idx].obj.gvk)
       IN  /\ r.err # Nil
           /\ err' = r.err
           /\ calls' = Append(calls, RESTMappingCall(objs[idx].obj.gvk, r))
    /\ pc' = "Aborted"
    /\ UNCHANGED <<inputs, objs, idx, ownerScope, seen, WatchCalls, finished,
                   waiting, helmActions>>

RegisterIgnoresRefusal ==
    /\ pc = "Selecting"
    /\ idx <= Len(objs)
    /\ KindKey(objs[idx]) \notin seen
    /\ LET d == objs[idx]
           r == RESTMapping(rm, d.obj.gvk)
           s == SelectStrategy(ownerScope, owner.namespace, r.scope,
                               d.obj.namespace,
                               HasResourcePolicyKeep(d.obj.annotations))
       IN  /\ r.err = Nil
           /\ WatchCalls' = Append(WatchCalls, [obj |-> d.obj, handler |-> s])
           /\ \E e \in WatchErrors \cup {Nil} :
                /\ calls' = calls \o <<RESTMappingCall(d.obj.gvk, r),
                                       WatchCall(d.obj, s, e)>>
                /\ seen' = seen \cup {SeenKey(d)}
                /\ idx' = idx + 1
                /\ UNCHANGED <<pc, err>>
    /\ UNCHANGED <<inputs, objs, ownerScope, finished,
                   waiting, helmActions>>

\* Steps 3b - 3e: resolve, select the strategy, call Watch.  The controller
\* records the call; it may refuse it, which aborts the call.
Register ==
    /\ pc = "Selecting"
    /\ idx <= Len(objs)
    /\ KindKey(objs[idx]) \notin seen
    /\ LET d == objs[idx]
           r == RESTMapping(rm, d.obj.gvk)
           s == SelectStrategy(ownerScope, owner.namespace, r.scope,
                               d.obj.namespace,
                               HasResourcePolicyKeep(d.obj.annotations))
       IN  /\ r.err = Nil
           /\ WatchCalls' = Append(WatchCalls, [obj |-> d.obj, handler |-> s])
           /\ \E e \in WatchErrors \cup {Nil} :
                /\ calls' = calls \o <<RESTMappingCall(d.obj.gvk, r),
                                       WatchCall(d.obj, s, e)>>
                /\ IF e # Nil
                   THEN /\ pc' = "Aborted"
                        /\ err' = e
                        /\ UNCHANGED <<idx, seen>>
                   ELSE /\ seen' = seen \cup {SeenKey(d)}
                        /\ idx' = idx + 1
                        /\ UNCHANGED <<pc, err>>
    /\ UNCHANGED <<inputs, objs, ownerScope, finished,
                   waiting, helmActions>>

\* Step 4: every descriptor is processed: success.
Finish ==
    /\ pc = "Selecting"
    /\ idx > Len(objs)
    /\ pc' = "Done"
    /\ UNCHANGED <<inputs, objs, idx, ownerScope, seen, WatchCalls, err,
                   calls, finished,
                   waiting, helmActions>>

Next ==
    \/ Start
    \/ DecodeManifest
    \/ ResolveOwner
    \/ SkipSeen
    \/ ResolveFails
    \/ Register
    \/ Finish

Spec == Init /\ [][Next]_vars

\* Exec is one synchronous call: as long as the decoder, the mapping service
\* and the controller return, its next step is taken.
SpecLive == Spec /\ WF_vars(Next)

----------------------------------------------------------------------------
\* Successive Exec calls on one registrar, one per reconciliation of the
\* owner.  The controller keeps its record of Watch calls; everything else
\* is constructed at call entry and discarded at return.

AgainDocuments ==
    {rsOwnerNamespace, ssOtherNamespace, clusterRole, replicaSetList, foobar}

AgainManifests == UNION {[1..n -> AgainDocuments] : n \in 0..MaxDocs}

\* The manifest of the next reconciliation: unchanged, or with a document
\* put in front (in place of the rest, once the manifest is full).
NextManifests(m) ==
    {m} \cup {IF Len(m) < MaxDocs THEN <<d>> \o m ELSE <<d>> :
                d \in AgainDocuments}

InitAgain ==
    /\ owner \in Owners
    /\ rm = [g \in DOMAIN KnownAPIs \ {StatefulSet} |-> KnownAPIs[g]]
    /\ manifest \in AgainManifests
    /\ pc = "Start"
    /\ objs = <<>>
    /\ idx = 1
    /\ ownerScope = ""
    /\ seen = {}
    /\ WatchCalls = <<>>
    /\ err = Nil
    /\ calls = <<>>
    /\ finished = <<>>
    /\ waiting = <<>>
    /\ NewActions

FinishedCall ==
    [manifest |-> manifest, objs |-> objs, pc |-> pc, err |-> err,
     calls |-> calls]

ExecAgainKeepsSeen ==
    /\ pc \in {"Done", "Aborted"}
    /\ Len(finished) + 1 < MaxExecs
    /\ finished' = Append(finished, FinishedCall)
    /\ manifest' \in NextManifests(manifest)
    /\ pc' = "Start"
    /\ objs' = <<>>
    /\ idx' = 1
    /\ ownerScope' = ""
    /\ err' = Nil
    /\ calls' = <<>>
    /\ UNCHANGED <<owner, rm, WatchCalls, seen, waiting, helmActions>>

\* Exec has returned; the next reconciliation calls it again.
ExecAgain ==
    /\ pc \in {"Done", "Aborted"}
    /\ Len(finished) + 1 < MaxExecs
    /\ finished' = Append(finished, FinishedCall)
    /\ manifest' \in NextManifests(manifest)
    /\ pc' = "Start"
    /\ objs' = <<>>
    /\ idx' = 1
    /\ ownerScope' = ""
    /\ seen' = {}
    /\ err' = Nil
    /\ calls' = <<>>
    /\ UNCHANGED <<owner, rm, WatchCalls, waiting, helmActions>>

NextAgain ==
    \/ Next
    \/ ExecAgain

SpecAgain == InitAgain /\ [][NextAgain]_vars

\* Concurrent calls.  Another goroutine is inside Exec on the same registrar
\* for another owner; the variables of a call (owner, manifest, pc, objs,
\* idx, ownerScope, seen, err, calls) are those of the goroutine that is
\* running, the REST mapper and the controller are shared.
ConcDocuments == {rsOwnerNamespace, ssOtherNamespace, clusterRole, foobar}

ConcManifests == UNION {[1..n -> ConcDocuments] : n \in 0..MaxDocs}

ExecCall ==
    [owner |-> owner, manifest |-> manifest, pc |-> pc, objs |-> objs,
     idx |-> idx, ownerScope |-> ownerScope, seen |-> seen, err |-> err,
     calls |-> calls]

EnteredCall(o, m) ==
    [owner |-> o, manifest |-> m, pc |-> "Start", objs |-> <<>>, idx |-> 1,
     ownerScope |-> "", seen |-> {}, err |-> Nil, calls |-> <<>>]

InitConc ==
    /\ owner \in Owners
    /\ rm = [g \in DOMAIN KnownAPIs \ {StatefulSet} |-> KnownAPIs[g]]
    /\ manifest \in ConcManifests
    /\ pc = "Start"
    /\ objs = <<>>
    /\ idx = 1
    /\ ownerScope = ""
    /\ seen = {}
    /\ WatchCalls = <<>>
    /\ err = Nil
    /\ calls = <<>>
    /\ finished = <<>>
    /\ \E o \in Owners \ {owner}, m \in ConcManifests :
          waiting = <<EnteredCall(o, m)>>
    /\ NewActions

SwitchSharingSeen ==
    /\ waiting # <<>>
    /\ waiting' = <<ExecCall>>
    /\ owner' = waiting[1].owner
    /\ manifest' = waiting[1].manifest
    /\ pc' = waiting[1].pc
    /\ objs' = waiting[1].objs
    /\ idx' = waiting[1].idx
    /\ ownerScope' = waiting[1].ownerScope
    /\ err' = waiting[1].err
    /\ calls' = waiting[1].calls
    /\ UNCHANGED <<rm, WatchCalls, finished, seen, helmActions>>

\* The scheduler runs the other goroutine: everything local to the running
\* call, its seen-set included, is put aside and the other call's is resumed.
Switch ==
    /\ waiting # <<>>
    /\ waiting' = <<ExecCall>>
    /\ owner' = waiting[1].owner
    /\ manifest' = waiting[1].manifest
    /\ pc' = waiting[1].pc
    /\ objs' = waiting[1].objs
    /\ idx' = waiting[1].idx
    /\ ownerScope' = waiting[1].ownerScope
    /\ seen' = waiting[1].seen
    /\ err' = waiting[1].err
    /\ calls' = waiting[1].calls
    /\ UNCHANGED <<rm, WatchCalls, finished, helmActions>>

NextConc ==
    \/ Next
    \/ Switch

SpecConc == InitConc /\ [][NextConc]_vars

\* The annotations of pkg/annotation.  An option is made from the value of
\* the annotation and applied to the helm action.
AnnotationValues ==
    {"1", "t", "T", "TRUE", "true", "True",
     "0", "f", "F", "FALSE", "false", "False",
     "", "yes", "tRuE", "2"}

ErrSyntax == [type |-> "strconv.ErrSyntax"]

\* strconv.ParseBool
ParseBool(str) ==
    IF str \in {"1", "t", "T", "TRUE", "true", "True"}
    THEN [v |-> TRUE, err |-> Nil]
    ELSE IF str \in {"0", "f", "F", "FALSE", "false", "False"}
    THEN [v |-> FALSE, err |-> Nil]
    ELSE [v |-> FALSE, err |-> ErrSyntax]

Applied(option, val) == [option |-> option, val |-> val, err |-> Nil]

ExecAtRest ==
    UNCHANGED <<owner, rm, manifest, pc, objs, idx, ownerScope, seen,
                WatchCalls, err, calls, finished, waiting>>

InitAnnotation ==
    /\ owner = Object(Deployment, ownerNamespace, "testDeployment", {})
    /\ rm = KnownAPIs
    /\ manifest = <<>>
    /\ pc = "Start"
    /\ objs = <<>>
    /\ idx = 1
    /\ ownerScope = ""
    /\ seen = {}
    /\ WatchCalls = <<>>
    /\ err = Nil
    /\ calls = <<>>
    /\ finished = <<>>
    /\ waiting = <<>>
    /\ NewActions

InstallDisableHooksInstallOption ==
    /\ \E val \in AnnotationValues :
          LET p == ParseBool(val)
              disableHooks == IF p.err = Nil THEN p.v ELSE FALSE
          IN  /\ install' = [install EXCEPT !.DisableHooks = disableHooks]
              /\ applied' = Applied("InstallDisableHooks", val)
    /\ UNCHANGED <<upgrade, uninstall>>
    /\ ExecAtRest

UpgradeDisableHooksUpgradeOption ==
    /\ \E val \in AnnotationValues :
          LET p == ParseBool(val)
              disableHooks == IF p.err = Nil THEN p.v ELSE FALSE
          IN  /\ upgrade' = [upgrade EXCEPT !.DisableHooks = disableHooks]
              /\ applied' = Applied("UpgradeDisableHooks", val)
    /\ UNCHANGED <<install, uninstall>>
    /\ ExecAtRest

UpgradeForceUpgradeOptionStrict ==
    /\ \E val \in AnnotationValues :
          LET p == ParseBool(val)
          IN  IF p.err = Nil
              THEN /\ upgrade' = [upgrade EXCEPT !.Force = p.v]
                   /\ applied' = Applied("UpgradeForce", val)
              ELSE /\ upgrade' = upgrade
                   /\ applied' = [Applied("UpgradeForce", val)
                                    EXCEPT !.err = p.err]
    /\ UNCHANGED <<install, uninstall>>
    /\ ExecAtRest

UpgradeForceUpgradeOption ==
    /\ \E val \in AnnotationValues :
          LET p == ParseBool(val)
              force == IF p.err = Nil THEN p.v ELSE FALSE
          IN  /\ upgrade' = [upgrade EXCEPT !.Force = force]
              /\ applied' = Applied("UpgradeForce", val)
    /\ UNCHANGED <<install, uninstall>>
    /\ ExecAtRest

UninstallDisableHooksUninstallOption ==
    /\ \E val \in AnnotationValues :
          LET p == ParseBool(val)
              disableHooks == IF p.err = Nil THEN p.v ELSE FALSE
          IN  /\ uninstall' = [uninstall EXCEPT !.DisableHooks = disableHooks]
              /\ applied' = Applied("UninstallDisableHooks", val)
    /\ UNCHANGED <<install, upgrade>>
    /\ ExecAtRest

NextAnnotation ==
    \/ InstallDisableHooksInstallOption
    \/ UpgradeDisableHooksUpgradeOption
    \/ UpgradeForceUpgradeOption
    \/ UninstallDisableHooksUninstallOption

SpecAnnotation == InitAnnotation /\ [][NextAnnotation]_vars

----------------------------------------------------------------------------
\* What the claims speak of

\* The descriptors the loop has dealt with: skipped, or watched and marked.
Processed == 1..(idx - 1)

FirstOfKind(j) == \A k \in 1..(j - 1) : KindKey(objs[k]) # KindKey(objs[j])

ManifestKinds == {KindKey(objs[k]) : k \in DOMAIN objs}

Watched(key) == \E i \in DOMAIN WatchCalls : WatchCalls[i].obj.gvk = key

WatchedKinds == {WatchCalls[i].obj.gvk : i \in DOMAIN WatchCalls}

FirstWatch(key) ==
    CHOOSE i \in DOMAIN WatchCalls :
        /\ WatchCalls[i].obj.gvk = key
        /\ \A k \in 1..(i - 1) : WatchCalls[k].obj.gvk # key

\* The strategy of the watch registered for a kind (the first one, should
\* there be more).
StrategyOfKind(key) == WatchCalls[FirstWatch(key)].handler

WatchedWith(key, strategy) == Watched(key) /\ StrategyOfKind(key) = strategy

Keep(d) == <<"helm.sh/resource-policy", "keep">> \in d.obj.annotations

NamespaceScoped(d) == KindKey(d) \in DOMAIN rm /\ rm[KindKey(d)] = "namespace"
ClusterScoped(d)   == KindKey(d) \in DOMAIN rm /\ rm[KindKey(d)] = "root"

OwnerNamespaceScoped == ownerScope = "namespace"
OwnerClusterScoped   == ownerScope = "root"

DocumentUndecodable(doc) ==
    ~doc.ok \/ (doc.gvk.kind = "List" /\ ~doc.itemsOK)

ManifestDecodes == \A n \in DOMAIN manifest : ~DocumentUndecodable(manifest[n])

OwnerUnresolvable == owner.gvk \notin DOMAIN rm

KindNotFoundError(gvk) ==
    [type |-> "NoKindMatchError",
     GroupKind |-> [Group |-> gvk.group, Kind |-> gvk.kind],
     SearchedVersions |-> <<gvk.version>>]

----------------------------------------------------------------------------
\* C1: within one Exec call at most K watch registrations are issued for a
\* manifest of K distinct kinds, and no kind is registered twice.
C1_AtMostOneWatchPerKind ==
    /\ Len(WatchCalls) <= Cardinality(ManifestKinds)
    /\ \A i, j \in DOMAIN WatchCalls :
          i # j => WatchCalls[i].obj.gvk # WatchCalls[j].obj.gvk

\* C2: with an owner whose kind the mapper does not know and a manifest that
\* decodes, Exec aborts with the no-match error of the owner's group, kind
\* and version, and no watch has been registered.
C2_UnknownOwnerAbortsBeforeAnyWatch ==
    (OwnerUnresolvable /\ ManifestDecodes) =>
        /\ WatchCalls = <<>>
        /\ pc \notin {"Selecting", "Done"}
        /\ pc = "Aborted" => err = KindNotFoundError(owner.gvk)

C2_Witness ==
    /\ OwnerUnresolvable
    /\ pc = "Aborted"
    /\ Len(objs) >= 2
    /\ \E k \in DOMAIN objs : KindKey(objs[k]) \in DOMAIN rm

\* C3: with a resolvable owner, Exec never succeeds over a manifest that has
\* an object of an unknown kind; when it aborts on one, the error is the
\* no-match error of that object's group, kind and version, the kinds
\* watched are exactly the kinds of the objects before it, and every watch
\* is for one of those objects.
C3_UnknownDependentAbortsWithoutRollback ==
    /\ pc = "Done" => \A k \in DOMAIN objs : KindKey(objs[k]) \in DOMAIN rm
    /\ (pc = "Aborted" /\ err.type = "NoKindMatchError" /\ ~OwnerUnresolvable) =>
          /\ idx \in DOMAIN objs
          /\ FirstOfKind(idx)
          /\ err = KindNotFoundError(objs[idx].obj.gvk)
          /\ WatchedKinds = {KindKey(objs[k]) : k \in Processed}
          /\ \A i \in DOMAIN WatchCalls :
                \E k \in Processed : WatchCalls[i].obj = objs[k].obj

C3_Witness ==
    /\ pc = "Aborted"
    /\ err.type = "NoKindMatchError"
    /\ ~OwnerUnresolvable
    /\ idx = 3
    /\ Len(WatchCalls) = 2

\* C4 (as claimed): under a namespace-scoped owner, for every namespace-scoped
\* dependent in the owner's namespace without keep, the watch registered for
\* its kind is an owner-reference watch.
C4_SameNamespaceUsesOwnerReference ==
    \A j \in Processed :
        (OwnerNamespaceScoped /\ NamespaceScoped(objs[j])
         /\ objs[j].obj.namespace = owner.namespace /\ ~Keep(objs[j]))
        => WatchedWith(KindKey(objs[j]), "EnqueueRequestForOwner")

\* C4 (amended): the same, for a dependent that is the first object of its
\* kind in the manifest.
C4_FirstSameNamespaceUsesOwnerReference ==
    \A j \in Processed :
        (OwnerNamespaceScoped /\ NamespaceScoped(objs[j]) /\ FirstOfKind(j)
         /\ objs[j].obj.namespace = owner.namespace /\ ~Keep(objs[j]))
        => WatchedWith(KindKey(objs[j]), "EnqueueRequestForOwner")

C4_Witness ==
    /\ pc = "Done"
    /\ \E j \in Processed :
          /\ OwnerNamespaceScoped /\ NamespaceScoped(objs[j]) /\ FirstOfKind(j)
          /\ objs[j].obj.namespace = owner.namespace /\ ~Keep(objs[j])
          /\ j > 1

\* C5: under a namespace-scoped owner, every watch registered for the kind of
\* a cluster-scoped dependent is an annotation watch, with or without keep.
C5_ClusterDependentOfNamespacedOwnerUsesAnnotation ==
    \A j \in Processed :
        (OwnerNamespaceScoped /\ ClusterScoped(objs[j])) =>
            /\ Watched(KindKey(objs[j]))
            /\ \A i \in DOMAIN WatchCalls :
                  WatchCalls[i].obj.gvk = KindKey(objs[j])
                  => WatchCalls[i].handler = "EnqueueRequestForAnnotation"

C5_Witness ==
    /\ pc = "Done"
    /\ OwnerNamespaceScoped
    /\ \E j, k \in Processed :
          /\ ClusterScoped(objs[j]) /\ ~Keep(objs[j])
          /\ ClusterScoped(objs[k]) /\ Keep(objs[k])

\* C6 (as claimed): under a namespace-scoped owner, for every namespace-scoped
\* dependent in another namespace, the watch registered for its kind is an
\* annotation watch.
C6_OtherNamespaceUsesAnnotation ==
    \A j \in Processed :
        (OwnerNamespaceScoped /\ NamespaceScoped(objs[j])
         /\ objs[j].obj.namespace # owner.namespace)
        => WatchedWith(KindKey(objs[j]), "EnqueueRequestForAnnotation")

\* C6 (amended): the same, for a dependent that is the first object of its
\* kind in the manifest.
C6_FirstOtherNamespaceUsesAnnotation ==
    \A j \in Processed :
        (OwnerNamespaceScoped /\ NamespaceScoped(objs[j]) /\ FirstOfKind(j)
         /\ objs[j].obj.namespace # owner.namespace)
        => WatchedWith(KindKey(objs[j]), "EnqueueRequestForAnnotation")

C6_Witness ==
    /\ pc = "Done"
    /\ \E j \in Processed :
          /\ OwnerNamespaceScoped /\ NamespaceScoped(objs[j]) /\ FirstOfKind(j)
          /\ objs[j].obj.namespace # owner.namespace /\ ~Keep(objs[j])

\* C7 (as claimed): under a cluster-scoped owner, for every cluster-scoped
\* dependent without keep, the watch registered for its kind is an
\* owner-reference watch.
C7_ClusterPairUsesOwnerReference ==
    \A j \in Processed :
        (OwnerClusterScoped /\ ClusterScoped(objs[j]) /\ ~Keep(objs[j]))
        => WatchedWith(KindKey(objs[j]), "EnqueueRequestForOwner")

\* C7 (amended): the same, for a dependent that is the first object of its
\* kind in the manifest.
C7_FirstClusterPairUsesOwnerReference ==
    \A j \in Processed :
        (OwnerClusterScoped /\ ClusterScoped(objs[j]) /\ FirstOfKind(j)
         /\ ~Keep(objs[j]))
        => WatchedWith(KindKey(objs[j]), "EnqueueRequestForOwner")

C7_Witness ==
    /\ pc = "Done"
    /\ Len(WatchCalls) = 1
    /\ \E j, k \in Processed :
          /\ j # k /\ KindKey(objs[j]) = KindKey(objs[k])
          /\ OwnerClusterScoped /\ ClusterScoped(objs[j]) /\ FirstOfKind(j)
          /\ ~Keep(objs[j])

\* C8: a dependent that carries the keep annotation and is the first object
\* of its kind has its kind watched with an annotation watch, whatever the
\* scopes and namespaces.
C8_KeepUsesAnnotation ==
    \A j \in Processed :
        (Keep(objs[j]) /\ FirstOfKind(j))
        => WatchedWith(KindKey(objs[j]), "EnqueueRequestForAnnotation")

C8_Witness ==
    /\ pc = "Done"
    /\ \E j \in Processed :
          /\ Keep(objs[j]) /\ FirstOfKind(j)
          /\ OwnerClusterScoped /\ ClusterScoped(objs[j])
          /\ \E k \in Processed : k > j /\ objs[k].obj.gvk = objs[j].obj.gvk
                                  /\ ~Keep(objs[k])

\* C9 (as claimed): under a cluster-scoped owner, for every namespace-scoped
\* dependent, the watch registered for its kind is an annotation watch.
C9_NamespacedUnderClusterOwnerUsesAnnotation ==
    \A j \in Processed :
        (OwnerClusterScoped /\ NamespaceScoped(objs[j]))
        => WatchedWith(KindKey(objs[j]), "EnqueueRequestForAnnotation")

\* C9 (amended): under a cluster-scoped owner, a namespace-scoped dependent
\* that is the first object of its kind has its kind watched with an
\* owner-reference watch when it carries no keep annotation, and with an
\* annotation watch when it does.
C9_FirstNamespacedUnderClusterOwnerUsesOwnerReference ==
    \A j \in Processed :
        (OwnerClusterScoped /\ NamespaceScoped(objs[j]) /\ FirstOfKind(j))
        => WatchedWith(KindKey(objs[j]),
                       IF Keep(objs[j]) THEN "EnqueueRequestForAnnotation"
                       ELSE "EnqueueRequestForOwner")

C9_Witness ==
    /\ pc = "Done"
    /\ \E j \in Processed :
          /\ OwnerClusterScoped /\ NamespaceScoped(objs[j]) /\ FirstOfKind(j)
          /\ ~Keep(objs[j])

\* C10: when a document of the manifest does not decode, Exec never gets past
\* decoding, ends with an error, and no watch is registered, whatever
\* precedes the malformed document.
C10_DecodeFailureRegistersNothing ==
    ~ManifestDecodes =>
        /\ WatchCalls = <<>>
        /\ pc \in {"Start", "Decoding", "Aborted"}
        /\ pc = "Aborted" => err # Nil

C10_Witness ==
    /\ pc = "Aborted"
    /\ Len(manifest) = 2
    /\ ~DocumentUndecodable(manifest[1])
    /\ manifest[1].gvk \in DOMAIN rm
    /\ ~OwnerUnresolvable
    /\ DocumentUndecodable(manifest[2])

\* C11: with a resolvable owner, a manifest that is empty, or holds nothing
\* but Lists without items, never aborts Exec: nothing is left to process,
\* no watch is registered and no error is returned.
EmptyManifest ==
    \A n \in DOMAIN manifest :
        /\ manifest[n].ok /\ manifest[n].gvk.kind = "List"
        /\ manifest[n].itemsOK /\ manifest[n].items = <<>>

C11_EmptyManifestSucceedsWithoutWatch ==
    (EmptyManifest /\ ~OwnerUnresolvable) =>
        /\ pc # "Aborted"
        /\ err = Nil
        /\ WatchCalls = <<>>
        /\ objs = <<>>
        /\ pc = "Selecting" => idx > Len(objs)

C11_Witness ==
    /\ pc = "Done"
    /\ EmptyManifest
    /\ Len(manifest) = 1
    /\ err = Nil

C11_WitnessEmptyString ==
    /\ pc = "Done"
    /\ manifest = <<>>
    /\ err = Nil

\* C12: a manifest with a List document whose items are present but hold no
\* sequence makes Exec end with an error, and never succeed.
ListWithoutItems(doc) == doc.ok /\ doc.gvk.kind = "List" /\ ~doc.itemsOK

C12_UnlistableItemsFail ==
    (\E n \in DOMAIN manifest : ListWithoutItems(manifest[n])) =>
        /\ pc \in {"Start", "Decoding", "Aborted"}
        /\ pc = "Aborted" => err # Nil

C12_Witness ==
    /\ pc = "Aborted"
    /\ Len(manifest) = 1
    /\ ListWithoutItems(manifest[1])
    /\ owner.gvk.kind = "Deployment"
    /\ DOMAIN rm = DOMAIN KnownAPIs

\* C13: a Watch call that the controller answers with an error is the last
\* collaborator call of the Exec call: Exec has aborted, returns that very
\* error, and the call was for the object the loop stands at.
C13_RefusedWatchAbortsAtOnce ==
    \A i \in DOMAIN calls :
        (calls[i].to = "Watch" /\ calls[i].err # Nil) =>
            /\ i = Len(calls)
            /\ pc = "Aborted"
            /\ err = calls[i].err
            /\ idx \in DOMAIN objs
            /\ calls[i].obj = objs[idx].obj
            /\ WatchCalls[Len(WatchCalls)].obj = objs[idx].obj

C13_Witness ==
    /\ pc = "Aborted"
    /\ err = ControllerStopped
    /\ calls # <<>>
    /\ calls[Len(calls)].to = "Watch"
    /\ \E k \in DOMAIN objs :
          /\ k > idx
          /\ KindKey(objs[k]) \notin seen
          /\ KindKey(objs[k]) # KindKey(objs[idx])
          /\ KindKey(objs[k]) \in DOMAIN rm

\* The Watch calls of a call that the controller accepted, and their kinds.
Accepted(cs) == {i \in DOMAIN cs : cs[i].to = "Watch" /\ cs[i].err = Nil}

AcceptedKinds(cs) == {cs[i].obj.gvk : i \in Accepted(cs)}

WatchesIn(cs) == {i \in DOMAIN cs : cs[i].to = "Watch"}

KindsOf(ds) == {KindKey(ds[k]) : k \in DOMAIN ds}

\* C14: of two successful Exec calls on one registrar with the same manifest,
\* each makes the collaborator calls the other makes, and each issues as
\* many watch registrations as the manifest has distinct kinds.
C14_EachCallRegistersEveryKindOnce ==
    \A n \in DOMAIN finished :
        (pc = "Done" /\ finished[n].pc = "Done"
         /\ finished[n].manifest = manifest) =>
            /\ calls = finished[n].calls
            /\ Cardinality(WatchesIn(calls)) = Cardinality(KindsOf(objs))
            /\ Cardinality(WatchesIn(finished[n].calls))
                  = Cardinality(KindsOf(finished[n].objs))

C15_SeenSetLastsOneCall ==
    /\ pc = "Start" => seen = {}
    /\ pc = "Done" => KindsOf(objs) = AcceptedKinds(calls)

C15_Witness ==
    /\ pc = "Done"
    /\ finished # <<>>
    /\ finished[1].pc = "Done"
    /\ \E key \in AcceptedKinds(finished[1].calls) :
          /\ key \in AcceptedKinds(calls)
          /\ \E k \in DOMAIN objs : KindKey(objs[k]) = key /\ objs[k].doc = key
    /\ AcceptedKinds(calls) \ AcceptedKinds(finished[1].calls) # {}

\* The strategy by owner scope, owner namespace, dependent scope, dependent
\* namespace and retention policy: as section 4.3 tabulates it, and as the
\* handlers the tests expect tabulate it.
Table43(oScope, oNs, dScope, dNs, policy) ==
    IF policy = "Default" /\ oScope = "namespace" /\ dScope = "namespace"
       /\ dNs = oNs
    THEN "EnqueueRequestForOwner"
    ELSE IF policy = "Default" /\ oScope = "root" /\ dScope = "root"
    THEN "EnqueueRequestForOwner"
    ELSE "EnqueueRequestForAnnotation"

TableOfTests(oScope, oNs, dScope, dNs, policy) ==
    IF policy = "Default" /\ oScope = "root"
    THEN "EnqueueRequestForOwner"
    ELSE Table43(oScope, oNs, dScope, dNs, policy)

RetentionPolicy(o) ==
    IF <<"helm.sh/resource-policy", "keep">> \in o.annotations
    THEN "Keep" ELSE "Default"

ExecCalls == {ExecCall} \cup {waiting[n] : n \in DOMAIN waiting}

MarkedBy(c) == {SeenKey(c.objs[k]) : k \in 1..(c.idx - 1)}

WatchesOfKind(key) == {i \in DOMAIN WatchCalls : WatchCalls[i].obj.gvk = key}

FirstIndexOfKind(key) ==
    CHOOSE j \in DOMAIN objs : KindKey(objs[j]) = key /\ FirstOfKind(j)

\* C17: when two processed objects of one kind differ in retention policy,
\* the kind has one watch registration, issued for the first object of the
\* kind in the manifest and with the strategy of that object.
C17_FirstSeenWins ==
    \A j, k \in Processed :
        (j < k /\ KindKey(objs[j]) = KindKey(objs[k])
         /\ Keep(objs[j]) # Keep(objs[k])) =>
            LET key == KindKey(objs[j])
                f   == objs[FirstIndexOfKind(key)].obj
            IN  /\ Cardinality(WatchesOfKind(key)) = 1
                /\ WatchCalls[FirstWatch(key)].obj = f
                /\ StrategyOfKind(key)
                     = TableOfTests(ownerScope, owner.namespace, rm[key],
                                    f.namespace, RetentionPolicy(f))

\* C18: when Exec has succeeded, the kinds watched are the kinds of the
\* manifest, and each has exactly one watch registration.
C18_OneWatchPerKindOnSuccess ==
    pc = "Done" =>
        /\ WatchedKinds = ManifestKinds
        /\ \A key \in ManifestKinds : Cardinality(WatchesOfKind(key)) = 1

\* C19 (as claimed): the strategy of every watch registration is the entry
\* of the table of section 4.3 for the owner's scope and namespace and the
\* object's scope, namespace and retention policy, whatever the object's
\* name, the other objects and the kinds seen before.
C19_StrategyIsTable43 ==
    \A i \in DOMAIN WatchCalls :
        LET o == WatchCalls[i].obj
        IN  WatchCalls[i].handler
              = Table43(ownerScope, owner.namespace, rm[o.gvk], o.namespace,
                        RetentionPolicy(o))

\* C19 (amended): the same, with the table the tests expect: it differs from
\* the one of section 4.3 in that a cluster-scoped owner has an
\* owner-reference watch on namespace-scoped dependents of policy Default.
C19_StrategyIsTableOfTests ==
    \A i \in DOMAIN WatchCalls :
        LET o == WatchCalls[i].obj
        IN  WatchCalls[i].handler
              = TableOfTests(ownerScope, owner.namespace, rm[o.gvk],
                             o.namespace, RetentionPolicy(o))

C19_Witness ==
    /\ pc = "Done"
    /\ \E i, j \in DOMAIN WatchCalls :
          /\ i < j
          /\ WatchCalls[i].obj.name # WatchCalls[j].obj.name
          /\ WatchCalls[i].obj.gvk # WatchCalls[j].obj.gvk
          /\ rm[WatchCalls[i].obj.gvk] = rm[WatchCalls[j].obj.gvk]
          /\ WatchCalls[i].obj.namespace = WatchCalls[j].obj.namespace
          /\ RetentionPolicy(WatchCalls[i].obj) = RetentionPolicy(WatchCalls[j].obj)
          /\ WatchCalls[i].handler = WatchCalls[j].handler
          /\ WatchCalls[i].handler = "EnqueueRequestForOwner"
          /\ ownerScope = "namespace"

\* C20: an object whose retention annotation is absent, or has a value other
\* than the literal keep (Keep and KEEP among them), is watched with the
\* strategy of policy Default.
C20_OnlyLiteralKeepIsKeep ==
    \A i \in DOMAIN WatchCalls :
        LET o == WatchCalls[i].obj
        IN  <<"helm.sh/resource-policy", "keep">> \notin o.annotations =>
              WatchCalls[i].handler
                = TableOfTests(ownerScope, owner.namespace, rm[o.gvk],
                               o.namespace, "Default")

C20_Witness ==
    /\ pc = "Done"
    /\ \E i \in DOMAIN WatchCalls :
          /\ \E v \in {"Keep", "KEEP"} :
                <<"helm.sh/resource-policy", v>> \in WatchCalls[i].obj.annotations
          /\ WatchCalls[i].handler = "EnqueueRequestForOwner"

MappingCalls == {i \in DOMAIN calls : calls[i].to = "RESTMapping"}

DependentMappingCalls(key) ==
    {i \in MappingCalls : i > 1 /\ calls[i].gvk = key}

\* C21: in one Exec call the mapping service is queried once for the owner's
\* kind, as the first collaborator call, and after it once for every distinct
\* kind of the objects gone through, never for an object whose kind has been
\* registered already.
C21_OneMappingQueryPerKind ==
    pc \in {"Selecting", "Done", "Aborted"} /\ calls # <<>> =>
        /\ calls[1].to = "RESTMapping"
        /\ calls[1].gvk = owner.gvk
        /\ \A k \in Processed :
              Cardinality(DependentMappingCalls(KindKey(objs[k]))) = 1
        /\ \A i \in MappingCalls :
              i > 1 => Cardinality(DependentMappingCalls(calls[i].gvk)) = 1

\* The number of descriptors a document stands for, and the number of those
\* that the documents before the n-th stand for.
DescriptorCount(doc) ==
    IF doc.gvk.kind = "List" THEN Len(doc.items) ELSE 1

RECURSIVE DescriptorsBefore(_)
DescriptorsBefore(n) ==
    IF n <= 1 THEN 0
    ELSE DescriptorsBefore(n - 1) + DescriptorCount(manifest[n - 1])

\* C22: the descriptors of a manifest that decodes are its documents in
\* their order, with the items of a List in list order in the place of the
\* List; a List itself is no descriptor and gets no watch registration.
C22_DescriptorsInDocumentOrder ==
    (ManifestDecodes /\ pc \notin {"Start", "Decoding"}) =>
        /\ Len(objs) = DescriptorsBefore(Len(manifest) + 1)
        /\ \A n \in DOMAIN manifest :
              IF manifest[n].gvk.kind = "List"
              THEN \A k \in DOMAIN manifest[n].items :
                      objs[DescriptorsBefore(n) + k].obj = manifest[n].items[k]
              ELSE objs[DescriptorsBefore(n) + 1].obj = manifest[n]
        /\ \A k \in DOMAIN objs : objs[k].obj.gvk.kind # "List"
        /\ \A i \in DOMAIN WatchCalls : WatchCalls[i].obj.gvk.kind # "List"

C22_Witness ==
    /\ pc = "Done"
    /\ Len(manifest) = 2
    /\ manifest[1].gvk.kind = "List"
    /\ Len(manifest[1].items) = 3
    /\ manifest[1].items[1] # manifest[1].items[3]
    /\ manifest[2].gvk.kind # "List"
    /\ Len(objs) = 4
    /\ objs[4].obj = manifest[2]
    /\ WatchCalls # <<>>

Returned == pc \in {"Done", "Aborted"}

\* C23: an Exec call whose collaborators return ends Done or Aborted; a step
\* of the loop moves on to the next object or ends the call, and nothing
\* follows Done or Aborted.
C23_ExecTerminates ==
    /\ <>Returned
    /\ [][/\ (pc = "Selecting" /\ pc' = "Selecting") => idx' = idx + 1
          /\ (pc = "Selecting" /\ pc' # "Selecting") => pc' \in {"Done", "Aborted"}
          /\ ~Returned]_vars

C23_Witness ==
    /\ pc = "Done"
    /\ Len(objs) >= 3
    /\ idx = Len(objs) + 1
    /\ Len(WatchCalls) < Len(objs)
    /\ Len(WatchCalls) >= 2

FirstOccurrences == {j \in DOMAIN objs : FirstOfKind(j)}

\* The object with which the i-th distinct kind of the manifest first occurs.
NthFirstOccurrence(i) ==
    CHOOSE j \in FirstOccurrences :
        Cardinality({k \in FirstOccurrences : k <= j}) = i

\* C24: the i-th watch registration is for the i-th distinct kind of the
\* manifest, by the object with which that kind first occurs.
C24_WatchesInOrderOfFirstOccurrence ==
    \A i \in DOMAIN WatchCalls :
        /\ i <= Cardinality(FirstOccurrences)
        /\ WatchCalls[i].obj = objs[NthFirstOccurrence(i)].obj

\* The flag an annotation option is for.
FlagOf(option) ==
    CASE option = "InstallDisableHooks"   -> install.DisableHooks
      [] option = "UpgradeDisableHooks"   -> upgrade.DisableHooks
      [] option = "UpgradeForce"          -> upgrade.Force
      [] option = "UninstallDisableHooks" -> uninstall.DisableHooks

\* C25: once the option of InstallDisableHooks, UpgradeDisableHooks,
\* UpgradeForce or UninstallDisableHooks is applied, its flag is true if the
\* annotation's value is one that parses as true and false for every other
\* value, those that do not parse included, and the option returned no error.
C25_FlagIsParsedBoolOrFalse ==
    applied.option # "" =>
        /\ applied.err = [type |-> "nil"]
        /\ FlagOf(applied.option)
             = (applied.val \in {"1", "t", "T", "TRUE", "true", "True"})

C25_Witness ==
    /\ applied.option = "UpgradeForce"
    /\ applied.val = "yes"
    /\ applied.err = [type |-> "nil"]
    /\ upgrade.Force = FALSE
    /\ upgrade.DisableHooks = TRUE
    /\ install.DisableHooks = TRUE
    /\ uninstall.DisableHooks = TRUE

====
